---- MODULE Spec2Model ----
(***************************************************************************)
(* A model of morrcaffeine_macos.py: the session scheduler (random start   *)
(* inside a daily window on allowed weekdays), the session and wait poll   *)
(* loops, the start-up validation and the life cycle of the caffeinate     *)
(* child process.                                                          *)
(*                                                                         *)
(* Time.  A datetime is an integer number of clock ticks since midnight    *)
(* of day 0, which is a Monday.  One second is Sub ticks, so a datetime    *)
(* read from the clock may carry a fraction of a second, while a time      *)
(* parsed from the command line is a whole number of seconds.  The         *)
(* calendar is scaled down: a day has HoursPerDay hours, an hour           *)
(* MinPerHour minutes and a minute SecPerMin seconds.                      *)
(***************************************************************************)
EXTENDS Integers, Sequences, FiniteSets, TLC

(* ------------------------------ bounds -------------------------------- *)
Sub == 2
HoursPerDay == 2
MinPerHour == 1
SecPerMin == 1
NowDays == 7
MaxInstant == 7
MaxCsvLen == 5
MaxClock == 10
MaxBuf == 1
MaxLag == 2

(* ------------------------- calendar arithmetic ------------------------ *)
SecPerHour == MinPerHour * SecPerMin
DayLen == HoursPerDay * SecPerHour
TicksPerDay == DayLen * Sub

None == -1

\* int(x): truncation toward zero of a number of ticks to whole seconds
total_seconds_int(ticks) ==
    IF ticks >= 0 THEN ticks \div Sub ELSE -((-ticks) \div Sub)

\* datetime.date(): the calendar day of an instant
date(x) == x \div TicksPerDay

\* datetime.combine(day, time): time is a time of day in whole seconds
combine(day, tod) == day * TicksPerDay + tod * Sub

\* dt.time.min
time_min == 0

DOW_ABBREV ==
    [w \in 0..6 |-> CASE w = 0 -> "Mon" [] w = 1 -> "Tue" [] w = 2 -> "Wed"
                      [] w = 3 -> "Thu" [] w = 4 -> "Fri" [] w = 5 -> "Sat"
                      [] w = 6 -> "Sun"]

\* date.weekday(): day 0 is a Monday
weekday(d) == d % 7

day_abbrev(d) == DOW_ABBREV[weekday(d)]

\* `x in allowed_days` for a list
InList(x, lst) == \E k \in DOMAIN lst : lst[k] = x

(* --------------------------- the scheduler ---------------------------- *)
\* The set of values one call can return (random.randint is a free choice).
get_random_datetime_in_window_ge(earliest_allowed, window_start, window_end) ==
    LET min_start == IF window_start > earliest_allowed
                     THEN window_start ELSE earliest_allowed
    IN  IF min_start >= window_end THEN {None}
        ELSE { min_start + offset * Sub :
                 offset \in 0..total_seconds_int(window_end - min_start) }

get_random_datetime_in_window_nofloor(earliest_allowed, window_start, window_end) ==
    IF window_start > window_end THEN {None}
    ELSE { window_start + offset * Sub :
             offset \in 0..total_seconds_int(window_end - window_start) }

get_random_datetime_in_window(earliest_allowed, window_start, window_end) ==
    LET min_start == IF window_start > earliest_allowed
                     THEN window_start ELSE earliest_allowed
        span_seconds == total_seconds_int(window_end - min_start)
    IN  IF min_start > window_end THEN {None}
        ELSE IF span_seconds < 0 THEN {None}
        ELSE { min_start + offset * Sub : offset \in 0..span_seconds }

LookaheadDays_week == 14 - 7

LookaheadDays == 14

\* The body of `for i in range(14)` from iteration i on: the set of
\* outcomes of the call (a start, or the exception that ends it).
RECURSIVE search_from(_, _, _, _, _)
search_from(i, now, win_start, win_end, allowed_days) ==
    IF i >= LookaheadDays THEN {[kind |-> "RuntimeError", at |-> None]}
    ELSE LET day == date(now) + i
             ws == combine(day, win_start)
             we == combine(day, win_end)
             earliest == IF i = 0 THEN now ELSE combine(day, time_min)
             candidate == get_random_datetime_in_window(earliest, ws, we)
         IN  IF ~InList(day_abbrev(day), allowed_days)
             THEN search_from(i + 1, now, win_start, win_end, allowed_days)
             ELSE IF we < ws THEN {[kind |-> "ValueError", at |-> None]}
             ELSE IF candidate # {None}
                  THEN {[kind |-> "ok", at |-> c] : c \in candidate}
                  ELSE search_from(i + 1, now, win_start, win_end, allowed_days)

get_next_session_start_skip_today(now, win_start, win_end, allowed_days) ==
    search_from(1, now, win_start, win_end, allowed_days)

get_next_session_start(now, win_start, win_end, allowed_days) ==
    search_from(0, now, win_start, win_end, allowed_days)

(* ----------------------- command-line parsing ------------------------ *)
\* A string is a sequence of one-character strings.
UpperChars == <<"A", "B", "C", "D", "E", "F", "G", "H", "I", "J", "K", "L", "M",
                "N", "O", "P", "Q", "R", "S", "T", "U", "V", "W", "X", "Y", "Z">>
LowerChars == <<"a", "b", "c", "d", "e", "f", "g", "h", "i", "j", "k", "l", "m",
                "n", "o", "p", "q", "r", "s", "t", "u", "v", "w", "x", "y", "z">>

lower_char(c) ==
    IF \E k \in 1..26 : UpperChars[k] = c
    THEN LowerChars[CHOOSE k \in 1..26 : UpperChars[k] = c] ELSE c

upper_char(c) ==
    IF \E k \in 1..26 : LowerChars[k] = c
    THEN UpperChars[CHOOSE k \in 1..26 : LowerChars[k] = c] ELSE c

\* str.lower()
lower(p) == [k \in 1..Len(p) |-> lower_char(p[k])]

\* str.split(",")
RECURSIVE split_comma(_)
split_comma(str) ==
    IF \A k \in 1..Len(str) : str[k] # ","
    THEN <<str>>
    ELSE LET k == CHOOSE j \in 1..Len(str) :
                    str[j] = "," /\ \A h \in 1..(j - 1) : str[h] # ","
         IN  <<SubSeq(str, 1, k - 1)>> \o split_comma(SubSeq(str, k + 1, Len(str)))

\* str.strip()
RECURSIVE strip(_)
strip(p) ==
    IF Len(p) = 0 THEN p
    ELSE IF p[1] = " " THEN strip(Tail(p))
    ELSE IF p[Len(p)] = " " THEN strip(SubSeq(p, 1, Len(p) - 1))
    ELSE p

\* p[:3]
first3(p) == SubSeq(p, 1, IF Len(p) < 3 THEN Len(p) ELSE 3)

DAY_MAP_keys ==
    { <<"m", "o", "n">>, <<"t", "u", "e">>, <<"w", "e", "d">>, <<"t", "h", "u">>,
      <<"f", "r", "i">>, <<"s", "a", "t">>, <<"s", "u", "n">> }

DAY_MAP(key) ==
    CASE key = <<"m", "o", "n">> -> "Mon" [] key = <<"t", "u", "e">> -> "Tue"
      [] key = <<"w", "e", "d">> -> "Wed" [] key = <<"t", "h", "u">> -> "Thu"
      [] key = <<"f", "r", "i">> -> "Fri" [] key = <<"s", "a", "t">> -> "Sat"
      [] key = <<"s", "u", "n">> -> "Sun"

\* parts = [p.strip() for p in days_csv.split(",") if p.strip()]
parts_of(days_csv) ==
    LET raw == split_comma(days_csv)
        stripped == [k \in 1..Len(raw) |-> strip(raw[k])]
    IN  SelectSeq(stripped, LAMBDA p : Len(p) > 0)

\* the list of the recognised parts, in order
RECURSIVE normalized_of(_)
normalized_of(parts) ==
    IF Len(parts) = 0 THEN <<>>
    ELSE LET key == first3(lower(parts[1]))
         IN  (IF key \in DAY_MAP_keys THEN <<DAY_MAP(key)>> ELSE <<>>)
             \o normalized_of(Tail(parts))

normalize_days(days_csv) ==
    LET normalized == normalized_of(parts_of(days_csv))
    IN  IF Len(normalized) = 0
        THEN [kind |-> "ValueError", value |-> <<>>]
        ELSE [kind |-> "ok", value |-> normalized]

\* A time string is the sequence of its colon-separated numeric fields;
\* "%H:%M" takes two fields, "%H:%M:%S" three.  The result is the time of
\* day in seconds, or None for the ValueError.
parse_time_of_day(str) ==
    IF /\ Len(str) = 2
       /\ str[1] \in 0..(HoursPerDay - 1)
       /\ str[2] \in 0..(MinPerHour - 1)
    THEN str[1] * SecPerHour + str[2] * SecPerMin
    ELSE IF /\ Len(str) = 3
            /\ str[1] \in 0..(HoursPerDay - 1)
            /\ str[2] \in 0..(MinPerHour - 1)
            /\ str[3] \in 0..(SecPerMin - 1)
    THEN str[1] * SecPerHour + str[2] * SecPerMin + str[3]
    ELSE None

(* ------------------------------- state -------------------------------- *)
VARIABLES
    clock,           \* the wall clock, in ticks
    args,            \* the command line: the values argparse hands to main
    env,             \* stdin/stdout being terminals, /usr/bin/caffeinate existing
    pc,              \* where main is
    win_start,       \* parsed --start-window-start, seconds of the day
    win_end,         \* parsed --start-window-end, seconds of the day
    allowed_days,    \* the list returned by normalize_days
    caffeinate_proc, \* the child process: "none", "running" or "terminated"
    atexit_registered, \* the atexit hook of line 392 is registered
    sig_handlers,    \* the signals handle_sig is installed for
    wrap_disabled,   \* RawTerminal._wrap_disabled
    stdin_buf,       \* keys typed and not read yet, each with the phase it was typed in
    session,         \* run_session's start, end, total, duration; and, of this
                     \* session, the keep-alives sent and the last percent shown
    next_send,       \* run_session's next_send
    next_progress,   \* next_progress of run_session or wait_until
    next_start,      \* main's next_start
    exit,            \* how the process ended: exit status and cause
    ev,              \* what the last step of main read and emitted
    lag,             \* ticks of the clock since the last step of main
    hist,            \* what has happened so far in this run
    ret              \* the last call of a function on its own: arguments and result

progVars == <<args, env, pc, caffeinate_proc, atexit_registered, sig_handlers,
              wrap_disabled, stdin_buf, session, next_send, next_progress,
              next_start, exit, ev, lag, hist>>

vars == <<clock, win_start, win_end, allowed_days, ret, progVars>>

NoSession == [start |-> None, end |-> None, total |-> None, duration |-> None,
              sent |-> None, percent |-> None]
NoExit == [code |-> None, cause |-> "none", at |-> "none"]
NoEv == [step |-> "none", key |-> "none", out |-> {}, shown |-> <<>>]

DefaultArgs ==
    [start_window_start |-> <<0, 0>>, start_window_end |-> <<0, 0>>,
     days_of_week |-> <<>>, min_duration_minutes |-> 1, max_duration_minutes |-> 1,
     interval_seconds |-> 1, progress_tick_seconds |-> 1]

DefaultEnv == [stdin_tty |-> TRUE, stdout_tty |-> TRUE, caffeinate_exists |-> TRUE]

\* main has not been started: the state of the variables of the program
\* while one of its functions is applied on its own
Idle ==
    /\ args = DefaultArgs
    /\ env = DefaultEnv
    /\ pc = "idle"
    /\ caffeinate_proc = "none"
    /\ atexit_registered = FALSE
    /\ sig_handlers = {}
    /\ wrap_disabled = FALSE
    /\ stdin_buf = <<>>
    /\ session = NoSession
    /\ next_send = None
    /\ next_progress = None
    /\ next_start = None
    /\ exit = NoExit
    /\ ev = NoEv
    /\ lag = 0
    /\ hist = {}

DayNames == <<"Mon", "Tue", "Wed", "Thu", "Fri", "Sat", "Sun">>

Range(f) == { f[k] : k \in DOMAIN f }

\* the weekday lists normalize_days can return, one per set of weekdays
DayLists == { SelectSeq(DayNames, LAMBDA d : d \in S) : S \in SUBSET Range(DayNames) }

TimesOfDay == 0..(DayLen - 1)

(* ------------- the scheduler functions on bounded inputs -------------- *)
SchedInit ==
    /\ clock \in 0..(NowDays * TicksPerDay - 1)
    /\ win_start \in TimesOfDay
    /\ win_end \in TimesOfDay
    /\ allowed_days \in DayLists
    /\ ret = [fn |-> "none"]
    /\ Idle

CallGetNextSessionStart ==
    /\ ret.fn = "none"
    /\ \E r \in get_next_session_start(clock, win_start, win_end, allowed_days) :
         ret' = [fn |-> "get_next_session_start", now |-> clock, kind |-> r.kind, at |-> r.at]
    /\ UNCHANGED <<clock, win_start, win_end, allowed_days, progVars>>

SchedNext == CallGetNextSessionStart

SchedSpec == SchedInit /\ [][SchedNext]_vars

\* C1: for a non-empty weekday list and a window with start <= end, the
\* instant get_next_session_start returns lies on a day whose weekday is in
\* the list, at a time of day inside [window start, window end], and is not
\* before now; with a zero-width window and now exactly on it on an allowed
\* day the result is now itself.
TheoremC1 ==
    (ret.fn = "get_next_session_start" /\ Len(allowed_days) > 0 /\ win_start <= win_end)
    => /\ ret.kind = "ok" =>
            /\ InList(day_abbrev(date(ret.at)), allowed_days)
            /\ combine(date(ret.at), win_start) <= ret.at
            /\ ret.at <= combine(date(ret.at), win_end)
            /\ ret.at >= ret.now
       /\ ( /\ win_start = win_end
            /\ ret.now = combine(date(ret.now), win_start)
            /\ InList(day_abbrev(date(ret.now)), allowed_days) )
          => (ret.kind = "ok" /\ ret.at = ret.now)

WitnessC1 ==
    /\ ret.fn = "get_next_session_start"
    /\ win_start = win_end
    /\ win_start > 0
    /\ ret.now = combine(date(ret.now), win_start)
    /\ InList(day_abbrev(date(ret.now)), allowed_days)
    /\ ret.kind = "ok"
    /\ ret.at = ret.now

\* C2: for a non-empty weekday list and a window with end >= start, whatever
\* now is, get_next_session_start returns a start on one of the days
\* now.date+0 .. +13 and raises neither of its two errors.
TheoremC2 ==
    (ret.fn = "get_next_session_start" /\ Len(allowed_days) > 0 /\ win_end >= win_start)
    => /\ ret.kind = "ok"
       /\ date(ret.at) - date(ret.now) \in 0..13

\* now is after today's window end and today is the only allowed weekday
WitnessC2 ==
    /\ ret.fn = "get_next_session_start"
    /\ Len(allowed_days) = 1
    /\ allowed_days[1] = day_abbrev(date(ret.now))
    /\ win_end >= win_start
    /\ ret.now > combine(date(ret.now), win_end)
    /\ ret.kind = "ok"
    /\ date(ret.at) = date(ret.now) + 7

\* day offset i qualifies: its weekday is allowed and its window holds an
\* instant that is not before earliestAllowed (now for offset 0, midnight of
\* the day otherwise)
Qualifies(i) ==
    LET day == date(ret.now) + i
        earliestAllowed == IF i = 0 THEN ret.now ELSE day * TicksPerDay
    IN  /\ InList(day_abbrev(day), allowed_days)
        /\ \E t \in combine(day, win_start)..combine(day, win_end) : t >= earliestAllowed

\* C3: the start get_next_session_start returns lies on the earliest
\* qualifying day among now.date+0 .. +13; with allowed days {Sat} and now on
\* a Monday it lies on the Saturday 5 days later.
TheoremC3 ==
    (ret.fn = "get_next_session_start" /\ ret.kind = "ok")
    => LET d == date(ret.at) - date(ret.now)
       IN  /\ d \in 0..13
           /\ Qualifies(d)
           /\ \A j \in 0..13 : j < d => ~Qualifies(j)
           /\ (allowed_days = <<"Sat">> /\ weekday(date(ret.now)) = 0) => d = 5

\* today qualifies (now inside today's window) and later days qualify too
WitnessC3 ==
    /\ ret.fn = "get_next_session_start"
    /\ ret.kind = "ok"
    /\ Len(allowed_days) >= 2
    /\ Qualifies(0)
    /\ Qualifies(1)
    /\ ret.now > combine(date(ret.now), win_start)
    /\ date(ret.at) = date(ret.now)

(* -------- get_random_datetime_in_window on bounded instants ---------- *)
WindowInit ==
    /\ clock \in 0..MaxInstant
    /\ win_start = 0
    /\ win_end = 0
    /\ allowed_days = <<>>
    /\ ret = [fn |-> "none"]
    /\ Idle

CallGetRandomDatetimeInWindow ==
    /\ ret.fn = "none"
    /\ \E ws \in 0..MaxInstant, we \in 0..MaxInstant :
         \E v \in get_random_datetime_in_window(clock, ws, we) :
           ret' = [fn |-> "get_random_datetime_in_window", earliest_allowed |-> clock,
                   window_start |-> ws, window_end |-> we, value |-> v]
    /\ UNCHANGED <<clock, win_start, win_end, allowed_days, progVars>>

WindowNext == CallGetRandomDatetimeInWindow

WindowSpec == WindowInit /\ [][WindowNext]_vars

Max(a, b) == IF a >= b THEN a ELSE b

\* C4: for windowStart <= windowEnd and any earliestAllowed,
\* get_random_datetime_in_window returns None exactly when
\* max(earliestAllowed, windowStart) > windowEnd, and otherwise an instant r
\* with max(earliestAllowed, windowStart) <= r <= windowEnd.
TheoremC4 ==
    (ret.fn = "get_random_datetime_in_window" /\ ret.window_start <= ret.window_end)
    => LET lowerBound == Max(ret.earliest_allowed, ret.window_start)
       IN  /\ (ret.value = None) <=> (lowerBound > ret.window_end)
           /\ ret.value # None => (lowerBound <= ret.value /\ ret.value <= ret.window_end)

\* earliestAllowed falls inside the window, a fraction of a second off its end
WitnessC4 ==
    /\ ret.fn = "get_random_datetime_in_window"
    /\ ret.window_start < ret.earliest_allowed
    /\ ret.earliest_allowed < ret.window_end
    /\ (ret.window_end - ret.earliest_allowed) % Sub # 0
    /\ ret.value # None
    /\ ret.value > ret.earliest_allowed

(* ---------------------- normalize_days on its own --------------------- *)
CsvChars == {"M", "o", "n", ",", " ", "x"}

CsvStrings == UNION { [1..n -> CsvChars] : n \in 0..MaxCsvLen }

DaysInit ==
    /\ clock = 0
    /\ win_start = 0
    /\ win_end = 0
    /\ allowed_days = <<>>
    /\ ret \in { [fn |-> "none", days_csv |-> str] : str \in CsvStrings }
    /\ Idle

CallNormalizeDays ==
    /\ ret.fn = "none"
    /\ LET r == normalize_days(ret.days_csv)
       IN  ret' = [fn |-> "normalize_days", days_csv |-> ret.days_csv,
                   kind |-> r.kind, value |-> r.value]
    /\ UNCHANGED <<clock, win_start, win_end, allowed_days, progVars>>

DaysNext == CallNormalizeDays

DaysSpec == DaysInit /\ [][DaysNext]_vars

(* ------------------------------ the program --------------------------- *)
Keys == {"q", "E"}

\* --start-window-start and --start-window-end: a window of some width, a
\* zero-width window, an inverted window, an hour out of range, a string
\* that is no time
WindowArgs ==
    { <<<<0, 0>>, <<HoursPerDay - 1, 0>>>>,
      <<<<HoursPerDay - 1, 0>>, <<HoursPerDay - 1, 0, 0>>>>,
      <<<<HoursPerDay - 1, 0>>, <<0, 0>>>>,
      <<<<HoursPerDay, 0>>, <<0, 0>>>>,
      <<<<0, 0>>, <<0>>>> }

DaysArgs ==
    { <<>>,
      <<"x">>,
      <<"T", "u", "e">>,
      <<"m", "o", "n", ",", "x", ",", "T", "U", "E", ",", " ", "w", "e", "d", "s">> }

ArgSets ==
    { [start_window_start |-> w[1], start_window_end |-> w[2],
       days_of_week |-> d,
       min_duration_minutes |-> mn, max_duration_minutes |-> mx,
       interval_seconds |-> iv, progress_tick_seconds |-> pt] :
        w \in WindowArgs, d \in DaysArgs, mn \in {0, 1}, mx \in {0, 1, 2},
        iv \in {0, SecPerMin}, pt \in {0, 1} }

EnvSets == [stdin_tty : BOOLEAN, stdout_tty : BOOLEAN, caffeinate_exists : BOOLEAN]

\* the program is started on a Monday at 00:00:00
StartClocks == {0}

Init ==
    /\ clock \in StartClocks
    /\ args \in ArgSets
    /\ env \in EnvSets
    /\ pc = "validate"
    /\ win_start = None
    /\ win_end = None
    /\ allowed_days = <<>>
    /\ caffeinate_proc = "none"
    /\ atexit_registered = FALSE
    /\ sig_handlers = {}
    /\ wrap_disabled = FALSE
    /\ stdin_buf = <<>>
    /\ session = NoSession
    /\ next_send = None
    /\ next_progress = None
    /\ next_start = None
    /\ exit = NoExit
    /\ ev = NoEv
    /\ lag = 0
    /\ hist = {}
    /\ ret = [fn |-> "none"]

\* timedelta(seconds = n) and timedelta(minutes = n), in ticks
seconds(n) == n * Sub
minutes(n) == n * SecPerMin * Sub

\* lines 371-388 without the interval check
validate_no_interval(a) ==
    LET ws == parse_time_of_day(a.start_window_start)
        we == parse_time_of_day(a.start_window_end)
        days == normalize_days(a.days_of_week)
    IN  IF ws = None \/ we = None THEN "ValueError"
        ELSE IF combine(0, we) < combine(0, ws) THEN "ValueError"
        ELSE IF days.kind # "ok" THEN "ValueError"
        ELSE IF a.min_duration_minutes <= 0 \/ a.max_duration_minutes <= 0 THEN "ValueError"
        ELSE IF a.max_duration_minutes < a.min_duration_minutes THEN "ValueError"
        ELSE IF a.progress_tick_seconds <= 0 THEN "ValueError"
        ELSE "ok"

\* lines 371-388 of main: "ok" or the exception raised
validate(a) ==
    LET ws == parse_time_of_day(a.start_window_start)
        we == parse_time_of_day(a.start_window_end)
        days == normalize_days(a.days_of_week)
    IN  IF ws = None \/ we = None THEN "ValueError"
        ELSE IF combine(0, we) < combine(0, ws) THEN "ValueError"
        ELSE IF days.kind # "ok" THEN "ValueError"
        ELSE IF a.min_duration_minutes <= 0 \/ a.max_duration_minutes <= 0 THEN "ValueError"
        ELSE IF a.max_duration_minutes < a.min_duration_minutes THEN "ValueError"
        ELSE IF a.interval_seconds <= 0 THEN "ValueError"
        ELSE IF a.progress_tick_seconds <= 0 THEN "ValueError"
        ELSE "ok"

stop_process(proc) == IF proc = "none" THEN "none" ELSE "terminated"

\* the control sequences a write to stdout carries when stdout is no terminal
CtrlLeak == IF env.stdout_tty THEN {} ELSE {"ctrl_on_nontty"}

\* clear_progress_line / print_progress_line: inert unless stdout is a terminal
clear_progress_line == IF env.stdout_tty THEN {"clear"} ELSE {}
print_progress_line == IF env.stdout_tty THEN {"status"} ELSE {}

\* an uncaught exception, or sys.exit: the frames of run_session, wait_until
\* and main are unwound and the interpreter starts to shut down
Unwound ==
    /\ session' = NoSession
    /\ next_send' = None
    /\ next_progress' = None
    /\ next_start' = None

Leave(code, cause) ==
    /\ pc' = "finalize"
    /\ exit' = [code |-> code, cause |-> cause, at |-> pc]
    /\ Unwound

Validate ==
    /\ pc = "validate"
    /\ lag' = 0
    /\ IF validate(args) = "ok"
       THEN /\ win_start' = parse_time_of_day(args.start_window_start)
            /\ win_end' = parse_time_of_day(args.start_window_end)
            /\ allowed_days' = normalize_days(args.days_of_week).value
            /\ pc' = "acquire"
            /\ UNCHANGED <<exit, session, next_send, next_progress, next_start>>
       ELSE /\ Leave(1, "config_error")
            /\ UNCHANGED <<win_start, win_end, allowed_days>>
    /\ ev' = [NoEv EXCEPT !.step = "validate"]
    /\ UNCHANGED <<clock, args, env, caffeinate_proc, atexit_registered, sig_handlers,
                   wrap_disabled, stdin_buf, hist, ret>>

\* line 391: start_caffeinate
StartCaffeinate ==
    /\ pc = "acquire"
    /\ lag' = 0
    /\ IF env.caffeinate_exists
       THEN /\ caffeinate_proc' = "running"
            /\ hist' = hist \cup {"acquired"}
            /\ pc' = "register"
            /\ UNCHANGED <<exit, session, next_send, next_progress, next_start>>
       ELSE /\ Leave(1, "error")
            /\ UNCHANGED <<caffeinate_proc, hist>>
    /\ ev' = [NoEv EXCEPT !.step = "acquire"]
    /\ UNCHANGED <<clock, args, env, win_start, win_end, allowed_days, atexit_registered,
                   sig_handlers, wrap_disabled, stdin_buf, ret>>

\* line 392: atexit.register
RegisterAtexit ==
    /\ pc = "register"
    /\ lag' = 0
    /\ atexit_registered' = TRUE
    /\ pc' = "sigint"
    /\ ev' = [NoEv EXCEPT !.step = "register"]
    /\ UNCHANGED <<clock, args, env, win_start, win_end, allowed_days, caffeinate_proc,
                   sig_handlers, wrap_disabled, stdin_buf, session, next_send,
                   next_progress, next_start, exit, hist, ret>>

\* lines 399 and 400: signal.signal
InstallHandler ==
    /\ pc \in {"sigint", "sigterm"}
    /\ lag' = 0
    /\ sig_handlers' = sig_handlers \cup {IF pc = "sigint" THEN "SIGINT" ELSE "SIGTERM"}
    /\ pc' = IF pc = "sigint" THEN "sigterm" ELSE "enter"
    /\ ev' = [NoEv EXCEPT !.step = "install"]
    /\ UNCHANGED <<clock, args, env, win_start, win_end, allowed_days, caffeinate_proc,
                   atexit_registered, wrap_disabled, stdin_buf, session, next_send,
                   next_progress, next_start, exit, hist, ret>>

\* lines 402-405: the two prints and RawTerminal.__enter__
EnterRawTerminal ==
    /\ pc = "enter"
    /\ lag' = 0
    /\ wrap_disabled' = env.stdin_tty
    /\ hist' = hist \cup (IF env.stdin_tty THEN CtrlLeak ELSE {})
    /\ pc' = "session_begin"
    /\ ev' = [NoEv EXCEPT !.step = "enter",
                          !.out = IF env.stdin_tty THEN {"wrap_off"} ELSE {}]
    /\ UNCHANGED <<clock, args, env, win_start, win_end, allowed_days, caffeinate_proc,
                   atexit_registered, sig_handlers, stdin_buf, session, next_send,
                   next_progress, next_start, exit, ret>>

\* lines 282-288 of run_session: the duration is drawn, start and end are set
RunSessionBegin ==
    /\ pc = "session_begin"
    /\ lag' = 0
    /\ \E duration \in args.min_duration_minutes..args.max_duration_minutes :
         LET start == clock
             end == start + minutes(duration)
         IN  session' = [start |-> start, end |-> end,
                         total |-> total_seconds_int(end - start), duration |-> duration,
                         sent |-> 0, percent |-> None]
    /\ hist' = hist \cup {"session"}
    /\ pc' = "session_init"
    /\ ev' = [NoEv EXCEPT !.step = "session_begin", !.out = {"note_started"}]
    /\ UNCHANGED <<clock, args, env, win_start, win_end, allowed_days, caffeinate_proc,
                   atexit_registered, sig_handlers, wrap_disabled, stdin_buf, next_send,
                   next_progress, next_start, exit, ret>>

\* lines 290-291
RunSessionInit ==
    /\ pc = "session_init"
    /\ lag' = 0
    /\ next_send' = clock
    /\ next_progress' = clock
    /\ pc' = "run"
    /\ ev' = [NoEv EXCEPT !.step = "session_init"]
    /\ UNCHANGED <<clock, args, env, win_start, win_end, allowed_days, caffeinate_proc,
                   atexit_registered, sig_handlers, wrap_disabled, stdin_buf, session,
                   next_start, exit, hist, ret>>

\* the key read and what is left in the terminal's input queue
read_key_nonblocking ==
    IF ~env.stdin_tty THEN [key |-> "none", buf |-> stdin_buf]
    ELSE IF Len(stdin_buf) = 0 THEN [key |-> "none", buf |-> stdin_buf]
    ELSE [key |-> upper_char(Head(stdin_buf).key), buf |-> Tail(stdin_buf)]

run_key_action_e_quits(key) ==
    IF key = "Q" \/ key = "E" THEN "exit" ELSE "continue"

run_key_action_q_breaks(key) ==
    IF key = "Q" \/ key = "E" THEN "break" ELSE "continue"

run_key_action_ignore(key) == "continue"

\* lines 299-306: what run_session does with the key it read
run_key_action(key) ==
    IF key = "Q" THEN "exit" ELSE IF key = "E" THEN "break" ELSE "continue"

wait_key_action_ignore(key) == "continue"

\* lines 343-346: what wait_until does with the key it read
wait_key_action(key) ==
    IF key = "Q" THEN "exit" ELSE "continue"

\* subprocess.run(..., check=False): the command ran and returned zero, ran and
\* returned non-zero, or could not be started (OSError is raised)
SendOutcomes == {"ok", "nonzero", "OSError"}

progress_of_countdown(now) ==
    LET r0 == total_seconds_int(session.end - now)
        remaining == IF r0 < 0 THEN 0 ELSE r0
        elapsed == session.total - remaining
        percent == IF session.total > 0 THEN (remaining * 100) \div session.total ELSE 0
    IN  <<remaining, elapsed, percent>>

\* lines 313-321: remaining, elapsed and percent at `now`
progress_of(now) ==
    LET r0 == total_seconds_int(session.end - now)
        remaining == IF r0 < 0 THEN 0 ELSE r0
        e0 == session.total - remaining
        e1 == IF e0 < 0 THEN 0 ELSE e0
        elapsed == IF e1 > session.total THEN session.total ELSE e1
        percent == IF session.total > 0 THEN (elapsed * 100) \div session.total ELSE 0
    IN  <<remaining, elapsed, percent>>

session_over_late(now) == now > session.end

session_over_never(now) == FALSE

\* line 295: the session has timed out
session_over(now) == now >= session.end

\* one iteration of the loop of run_session, lines 293-330
RunPoll ==
    /\ pc = "run"
    /\ lag' = 0
    /\ LET now == clock
           rk == read_key_nonblocking
           act == run_key_action(rk.key)
           send_due == now >= next_send
           progress_due == now >= next_progress
       IN  IF session_over(now)
           THEN /\ pc' = "schedule"
                /\ ev' = [NoEv EXCEPT !.step = "run",
                                      !.out = clear_progress_line \cup {"timeout", "note_ended"}]
                /\ session' = NoSession
                /\ next_send' = None
                /\ next_progress' = None
                /\ UNCHANGED <<stdin_buf, next_start, exit, hist>>
           ELSE /\ stdin_buf' = rk.buf
                /\ CASE act = "exit" ->
                          /\ Leave(0, "quit")
                          /\ ev' = [NoEv EXCEPT !.step = "run", !.key = rk.key,
                                       !.out = clear_progress_line \cup {"note_exiting"}]
                          /\ UNCHANGED hist
                     [] act = "break" ->
                          /\ pc' = "schedule"
                          /\ ev' = [NoEv EXCEPT !.step = "run", !.key = rk.key,
                                       !.out = clear_progress_line
                                               \cup {"note_early", "note_ended"}]
                          /\ session' = NoSession
                          /\ next_send' = None
                          /\ next_progress' = None
                          /\ UNCHANGED <<next_start, exit, hist>>
                     [] act = "continue" ->
                          \E outcome \in SendOutcomes :
                            LET raised == send_due /\ outcome = "OSError"
                                shown == IF progress_due /\ ~raised
                                         THEN progress_of(now) ELSE <<>>
                            IN  /\ send_due \/ outcome = "ok"
                                /\ hist' = hist \cup (IF send_due THEN {"keepalive"} ELSE {})
                                /\ IF raised
                                   THEN Leave(1, "error")
                                   ELSE /\ next_send' =
                                             IF send_due
                                             THEN now + seconds(args.interval_seconds)
                                             ELSE next_send
                                        /\ next_progress' =
                                             IF progress_due
                                             THEN now + seconds(args.progress_tick_seconds)
                                             ELSE next_progress
                                        /\ session' =
                                             [session EXCEPT
                                                !.sent = IF send_due THEN @ + 1 ELSE @,
                                                !.percent = IF progress_due
                                                            THEN shown[3] ELSE @]
                                        /\ UNCHANGED <<pc, exit, next_start>>
                                /\ ev' = [step |-> "run", key |-> rk.key,
                                          out |-> (IF send_due THEN {"send_f13"} ELSE {})
                                                  \cup (IF progress_due /\ ~raised
                                                        THEN {"progress"} \cup print_progress_line
                                                        ELSE {}),
                                          shown |-> shown]
    /\ UNCHANGED <<clock, args, env, win_start, win_end, allowed_days, caffeinate_proc,
                   atexit_registered, sig_handlers, wrap_disabled, ret>>

\* line 411 and lines 334-335: the next start is computed and wait_until begins
Schedule ==
    /\ pc = "schedule"
    /\ lag' = 0
    /\ \E r \in get_next_session_start(clock, win_start, win_end, allowed_days) :
         IF r.kind = "ok"
         THEN /\ next_start' = r.at
              /\ next_progress' = clock
              /\ pc' = "wait"
              /\ ev' = [NoEv EXCEPT !.step = "schedule", !.out = {"note_next"}]
              /\ UNCHANGED <<exit, session, next_send>>
         ELSE /\ Leave(1, "error")
              /\ ev' = [NoEv EXCEPT !.step = "schedule"]
    /\ UNCHANGED <<clock, args, env, win_start, win_end, allowed_days, caffeinate_proc,
                   atexit_registered, sig_handlers, wrap_disabled, stdin_buf, hist, ret>>

\* one iteration of the loop of wait_until, lines 337-357
WaitPoll ==
    /\ pc = "wait"
    /\ lag' = 0
    /\ LET now == clock
           rk == read_key_nonblocking
           act == wait_key_action(rk.key)
           progress_due == now >= next_progress
       IN  IF now >= next_start
           THEN /\ pc' = "session_begin"
                /\ ev' = [NoEv EXCEPT !.step = "wait", !.out = clear_progress_line \cup {"arrived"}]
                /\ next_progress' = None
                /\ UNCHANGED <<stdin_buf, exit, session, next_send, next_start>>
           ELSE /\ stdin_buf' = rk.buf
                /\ IF act = "exit"
                   THEN /\ Leave(0, "quit")
                        /\ ev' = [NoEv EXCEPT !.step = "wait", !.key = rk.key,
                                     !.out = clear_progress_line \cup {"note_exiting"}]
                   ELSE /\ UNCHANGED <<pc, exit, session, next_send, next_start>>
                        /\ next_progress' = IF progress_due
                                            THEN now + seconds(args.progress_tick_seconds)
                                            ELSE next_progress
                        /\ ev' = [NoEv EXCEPT !.step = "wait", !.key = rk.key,
                                     !.out = IF progress_due
                                             THEN {"progress"} \cup print_progress_line
                                             ELSE {}]
    /\ UNCHANGED <<clock, args, env, win_start, win_end, allowed_days, caffeinate_proc,
                   atexit_registered, sig_handlers, wrap_disabled, hist, ret>>

\* the interpreter shuts down: RawTerminal.__exit__ (lines 94-104) when the
\* with block is left, then the atexit hook (stop_process) when registered
Finalize ==
    /\ pc = "finalize"
    /\ lag' = 0
    /\ wrap_disabled' = FALSE
    /\ hist' = hist \cup (IF wrap_disabled THEN CtrlLeak ELSE {})
    /\ caffeinate_proc' = IF atexit_registered
                          THEN stop_process(caffeinate_proc) ELSE caffeinate_proc
    /\ pc' = "exited"
    /\ ev' = [NoEv EXCEPT !.step = "finalize",
                          !.out = IF wrap_disabled THEN {"wrap_on"} ELSE {}]
    /\ UNCHANGED <<clock, args, env, win_start, win_end, allowed_days, atexit_registered,
                   sig_handlers, stdin_buf, session, next_send, next_progress, next_start,
                   exit, ret>>

LoopPcs == {"session_begin", "session_init", "run", "schedule", "wait"}

LivePcs == {"validate", "acquire", "register", "sigint", "sigterm", "enter"} \cup LoopPcs

\* SIGINT or SIGTERM is delivered: handle_sig (lines 394-397) when installed,
\* else the default (KeyboardInterrupt for SIGINT, death for SIGTERM)
Signal ==
    /\ pc \in LivePcs
    /\ lag' = 0
    /\ \E sig \in {"SIGINT", "SIGTERM"} :
         IF sig \in sig_handlers
         THEN /\ Leave(0, "signal")
              /\ ev' = [NoEv EXCEPT !.step = "signal",
                                    !.out = clear_progress_line \cup {"note_exiting"}]
         ELSE IF sig = "SIGINT"
         THEN /\ Leave(130, "KeyboardInterrupt")
              /\ ev' = [NoEv EXCEPT !.step = "signal"]
         ELSE /\ pc' = "exited"
              /\ exit' = [code |-> 143, cause |-> "killed", at |-> pc]
              /\ Unwound
              /\ ev' = [NoEv EXCEPT !.step = "signal"]
    /\ UNCHANGED <<clock, args, env, win_start, win_end, allowed_days, caffeinate_proc,
                   atexit_registered, sig_handlers, wrap_disabled, stdin_buf, hist, ret>>

\* time passes
Tick ==
    /\ pc \in LoopPcs
    /\ clock < MaxClock
    /\ lag < MaxLag
    /\ clock' = clock + 1
    /\ lag' = lag + 1
    /\ UNCHANGED <<args, env, pc, win_start, win_end, allowed_days, caffeinate_proc,
                   atexit_registered, sig_handlers, wrap_disabled, stdin_buf, session,
                   next_send, next_progress, next_start, exit, ev, hist, ret>>

\* the state of the control loop of main (lines 405-413)
Phase ==
    CASE pc \in {"session_begin", "session_init", "run"} -> "Running"
      [] pc \in {"schedule", "wait"} -> "Waiting"
      [] pc \in {"finalize", "exited"} -> "Terminated"
      [] OTHER -> "Startup"

\* a key is typed at the terminal
KeyPress ==
    /\ pc \in LoopPcs
    /\ env.stdin_tty
    /\ Len(stdin_buf) < MaxBuf
    /\ \E k \in Keys : stdin_buf' = Append(stdin_buf, [key |-> k, at |-> Phase])
    /\ UNCHANGED <<clock, args, env, pc, win_start, win_end, allowed_days, caffeinate_proc,
                   atexit_registered, sig_handlers, wrap_disabled, session, next_send,
                   next_progress, next_start, exit, ev, lag, hist, ret>>

Next ==
    \/ Validate
    \/ StartCaffeinate
    \/ RegisterAtexit
    \/ InstallHandler
    \/ EnterRawTerminal
    \/ RunSessionBegin
    \/ RunSessionInit
    \/ RunPoll
    \/ Schedule
    \/ WaitPoll
    \/ Finalize
    \/ Signal
    \/ Tick
    \/ KeyPress

Spec == Init /\ [][Next]_vars

(* ------------------------- the control loop --------------------------- *)
\* a quit: the Q key, or SIGINT/SIGTERM taken by handle_sig
QuitCauses == {"quit", "signal"}

\* C5: the control loop starts in Running, whatever the weekday and the
\* window; it leaves Running for Waiting only when the session times out or
\* is ended early, leaves Waiting for Running only when now >= next_start was
\* observed by wait_until, enters Terminated from the loop only on a quit,
\* and never leaves Terminated.
ClaimC5 ==
    [][ /\ (Phase = "Startup" /\ Phase' \notin {"Startup", "Terminated"})
           => Phase' = "Running"
        /\ (Phase = "Running" /\ Phase' # "Running")
           => \/ /\ Phase' = "Waiting"
                 /\ ev'.step = "run"
                 /\ ("timeout" \in ev'.out \/ ev'.key = "E")
              \/ /\ Phase' = "Terminated"
                 /\ exit'.cause \in QuitCauses
        /\ (Phase = "Waiting" /\ Phase' # "Waiting")
           => \/ /\ Phase' = "Running"
                 /\ pc = "wait"
                 /\ clock >= next_start
              \/ /\ Phase' = "Terminated"
                 /\ exit'.cause \in QuitCauses
        /\ Phase = "Terminated" => Phase' = "Terminated"
      ]_vars

\* C6: when the poll of run_session reads E, the session is over with the
\* ended-early notification, the process goes on (main is at line 411, about
\* to compute the next start and wait) and caffeinate is still running.
TheoremC6 ==
    (ev.step = "run" /\ ev.key = "E")
    => /\ pc = "schedule"
       /\ exit = NoExit
       /\ session = NoSession
       /\ "note_early" \in ev.out
       /\ ev.out \cap {"send_f13", "note_exiting"} = {}
       /\ caffeinate_proc = "running"

WitnessC6 ==
    /\ ev.step = "run"
    /\ ev.key = "E"
    /\ pc = "schedule"
    /\ "keepalive" \in hist
    /\ caffeinate_proc = "running"

\* C7: when the poll of run_session or of wait_until reads Q, the process
\* leaves the loop at once with exit status 0, and when it has ended
\* caffeinate has been terminated.
TheoremC7 ==
    /\ (ev.step \in {"run", "wait"} /\ ev.key = "Q")
       => /\ pc = "finalize"
          /\ exit.cause = "quit"
          /\ exit.code = 0
          /\ session = NoSession
    /\ exit.cause = "quit"
       => /\ pc \in {"finalize", "exited"}
          /\ exit.code = 0
          /\ exit.at \in {"run", "wait"}
          /\ pc = "exited" => caffeinate_proc = "terminated"

WitnessC7 ==
    /\ pc = "exited"
    /\ exit.cause = "quit"
    /\ exit.at = "wait"
    /\ exit.code = 0
    /\ caffeinate_proc = "terminated"

\* C8: whenever the process has ended after caffeinate was started,
\* caffeinate has been terminated.
ClaimC8 ==
    (pc = "exited" /\ "acquired" \in hist) => caffeinate_proc = "terminated"

\* a time string of two or three fields, each in its range
ValidTimeString(str) ==
    /\ Len(str) \in {2, 3}
    /\ str[1] >= 0 /\ str[1] < HoursPerDay
    /\ str[2] >= 0 /\ str[2] < MinPerHour
    /\ Len(str) = 3 => (str[3] >= 0 /\ str[3] < SecPerMin)

\* the seconds of the day a valid time string names
TimeValue(str) ==
    str[1] * MinPerHour * SecPerMin + str[2] * SecPerMin + (IF Len(str) = 3 THEN str[3] ELSE 0)

\* no part of the comma list names a weekday
NoWeekday(csv) ==
    LET parts == parts_of(csv)
    IN  \A k \in 1..Len(parts) : first3(lower(parts[k])) \notin DAY_MAP_keys

\* the configuration errors: invalid time string, empty or invalid weekday
\* set, non-positive duration, max < min, non-positive interval or tick,
\* window end before window start
ConfigError(a) ==
    \/ a.min_duration_minutes <= 0
    \/ a.max_duration_minutes <= 0
    \/ a.max_duration_minutes < a.min_duration_minutes
    \/ a.interval_seconds <= 0
    \/ a.progress_tick_seconds <= 0
    \/ ~ValidTimeString(a.start_window_start)
    \/ ~ValidTimeString(a.start_window_end)
    \/ TimeValue(a.start_window_end) < TimeValue(a.start_window_start)
    \/ NoWeekday(a.days_of_week)

\* C9: with a configuration error main never gets past its validation:
\* caffeinate is never started, no session starts, no keep-alive is sent,
\* and the process ends with a non-zero exit status.
TheoremC9 ==
    /\ ConfigError(args)
       => /\ pc \in {"validate", "finalize", "exited"}
          /\ caffeinate_proc = "none"
          /\ hist \cap {"acquired", "session", "keepalive"} = {}
          /\ pc = "exited" => exit.code \notin {0, None}
    /\ exit.cause = "config_error"
       => /\ ConfigError(args)
          /\ exit.code = 1
          /\ exit.at = "validate"

WitnessC9 ==
    /\ pc = "exited"
    /\ exit.cause = "config_error"
    /\ exit.code = 1
    /\ args.interval_seconds <= 0
    /\ ~NoWeekday(args.days_of_week)
    /\ args.min_duration_minutes = 1
    /\ args.max_duration_minutes = 2
    /\ args.progress_tick_seconds = 1
    /\ ValidTimeString(args.start_window_start)
    /\ ValidTimeString(args.start_window_end)
    /\ TimeValue(args.start_window_end) > TimeValue(args.start_window_start)
    /\ caffeinate_proc = "none"

\* C10: normalize_days accepts a comma list only if every non-empty part of
\* it is, case aside, one of the seven 3-letter weekday abbreviations.
ClaimC10 ==
    (ret.fn = "normalize_days" /\ ret.kind = "ok")
    => LET parts == parts_of(ret.days_csv)
       IN  \A k \in 1..Len(parts) : lower(parts[k]) \in DAY_MAP_keys

(* --------------------------- the session loop ------------------------- *)
\* C11: at every progress tick of run_session remaining + elapsed = total
\* with remaining >= 0 and 0 <= elapsed <= total, percent is in 0..100, and
\* from one progress tick of a session to the next percent never decreases.
TheoremC11 ==
    /\ [](  (ev.step = "run" /\ ev.shown # <<>>)
            => /\ pc = "run"
               /\ ev.shown[1] + ev.shown[2] = session.total
               /\ ev.shown[1] >= 0
               /\ ev.shown[2] >= 0 /\ ev.shown[2] <= session.total
               /\ ev.shown[3] >= 0 /\ ev.shown[3] <= 100
               /\ session.percent = ev.shown[3] )
    /\ [][ (pc = "run" /\ pc' = "run" /\ session.percent # None)
           => session'.percent >= session.percent ]_vars

\* the second keep-alive of a session is sent in a poll that renders a
\* progress line with a percent above zero: at least the second progress tick
WitnessC11 ==
    /\ pc = "run"
    /\ ev.step = "run"
    /\ ev.out \cap {"send_f13", "progress"} = {"send_f13", "progress"}
    /\ session.sent = 2
    /\ ev.shown[3] >= 50
    /\ ev.shown[3] < 100

\* --min-duration-minutes 1 --max-duration-minutes 1 --interval-seconds 60
Config12 ==
    /\ args.min_duration_minutes = 1
    /\ args.max_duration_minutes = 1
    /\ args.interval_seconds = SecPerMin

ClaimC13 ==
    (ev.step = "run" /\ "send_f13" \in ev.out)
    => /\ pc = "run"
       /\ exit = NoExit
       /\ next_send = (clock - lag) + seconds(args.interval_seconds)

(* ----------------------------- the display ---------------------------- *)
\* C14: when standard output is no terminal, no terminal control sequence
\* is ever written to it, whatever standard input is.
ClaimC14 ==
    ~env.stdout_tty => "ctrl_on_nontty" \notin hist

(* ------------------- the session loop, continued ---------------------- *)
\* C17: the "session ended" notification is printed only when the loop of
\* run_session exits by timeout; a session ended by E prints the
\* ended-early notification and no "session ended", one cut by Q neither.
ClaimC17 ==
    /\ "note_ended" \in ev.out => (ev.step = "run" /\ "timeout" \in ev.out)
    /\ (ev.step = "run" /\ ev.key = "E")
       => ("note_early" \in ev.out /\ "note_ended" \notin ev.out)
    /\ (ev.step = "run" /\ ev.key = "Q")
       => ev.out \cap {"note_early", "note_ended"} = {}

\* C15: in one poll iteration of run_session the key is read before the
\* keep-alive is considered, and the keep-alive before the progress line: an
\* iteration that reads Q or E sends no keep-alive and renders no progress
\* line, whatever is due; an iteration that got past the key sends the
\* keep-alive that is due, and one that send_f13 aborted had read its key
\* and sent, and rendered nothing.
TheoremC15 ==
    /\ [](  (ev.step = "run" /\ ev.key \in {"Q", "E"})
            => /\ ev.out \cap {"send_f13", "progress", "status"} = {}
               /\ ev.shown = <<>>
               /\ pc # "run" )
    /\ [](  (ev.step = "run" /\ exit.cause = "error" /\ exit.at = "run")
            => /\ "send_f13" \in ev.out
               /\ ev.out \cap {"progress", "status"} = {}
               /\ ev.key \notin {"Q", "E"} )
    /\ [][ (pc = "run" /\ ev'.step = "run" /\ lag' = 0 /\ clock' = clock
                /\ Len(stdin_buf') <= Len(stdin_buf) /\ ~session_over(clock))
           => /\ stdin_buf' = read_key_nonblocking.buf
              /\ ev'.key = read_key_nonblocking.key
              /\ ev'.key \notin {"Q", "E"}
                 => /\ "send_f13" \in ev'.out <=> clock >= next_send
                    /\ "progress" \in ev'.out
                         => (clock >= next_progress
                             /\ ("send_f13" \in ev'.out => pc' = "run"))
         ]_vars

\* Q is read in the first iteration of the first session, where the
\* keep-alive and the progress line are both due
WitnessC15 ==
    /\ ev.step = "run"
    /\ ev.key = "Q"
    /\ exit.at = "run"
    /\ exit.cause = "quit"
    /\ pc = "finalize"
    /\ "session" \in hist
    /\ "keepalive" \notin hist

\* C16: the keep-alive due instant of run_session is set when the session
\* starts, so that the first poll finds it due, and each keep-alive sent
\* advances it by exactly the interval from its previous value, however late
\* the poll that sent it; the k-th due instant is the first plus k
\* intervals.
ClaimC16 ==
    /\ []( (pc = "run" /\ session.sent = 0)
           => (session.start <= next_send /\ next_send <= clock) )
    /\ [][ (pc = "run" /\ pc' = "run" /\ session'.sent = session.sent + 1)
           => next_send' = next_send + seconds(args.interval_seconds) ]_vars

\* C18: send_f13 is called only in a poll iteration of run_session whose
\* sampled now satisfies session start <= now < session end and which read
\* neither Q nor E: never by wait_until, never while the next start is
\* computed, never elsewhere in main.
TheoremC18 ==
    /\ []( "send_f13" \in ev.out => (ev.step = "run" /\ ev.key \notin {"Q", "E"}) )
    /\ []( "keepalive" \in hist => "session" \in hist )
    /\ [][ ( \/ ("keepalive" \in hist' /\ "keepalive" \notin hist)
             \/ (session'.sent # session.sent /\ session'.sent \notin {0, None})
             \/ ("send_f13" \in ev'.out /\ lag' = 0 /\ clock' = clock
                   /\ Len(stdin_buf') <= Len(stdin_buf)) )
           => /\ pc = "run"
              /\ ev'.step = "run"
              /\ "send_f13" \in ev'.out
              /\ session.start <= clock
              /\ clock < session.end
              /\ read_key_nonblocking.key \notin {"Q", "E"}
         ]_vars

\* a keep-alive sent in a session that started after a wait
WitnessC18 ==
    /\ pc = "run"
    /\ ev.step = "run"
    /\ "send_f13" \in ev.out
    /\ session.sent = 1
    /\ session.start > 0
    /\ next_start # None
    /\ next_start <= session.start

(* ------------------------------ liveness ------------------------------ *)
\* a step of main itself: the interpreter executes the next statement
MainStep ==
    \/ Validate
    \/ StartCaffeinate
    \/ RegisterAtexit
    \/ InstallHandler
    \/ EnterRawTerminal
    \/ RunSessionBegin
    \/ RunSessionInit
    \/ RunPoll
    \/ Schedule
    \/ WaitPoll
    \/ Finalize

\* the program on an interactive terminal, started with --days-of-week Tue
LiveInit ==
    /\ Init
    /\ env.stdin_tty
    /\ args.days_of_week = <<"T", "u", "e">>

\* the interpreter keeps running main: no statement that can be executed is
\* put off for ever
LiveSpec == LiveInit /\ [][Next]_vars /\ WF_vars(MainStep)

QuitPending ==
    \E k \in 1..Len(stdin_buf) : upper_char(stdin_buf[k].key) = "Q"

\* C19: on an interactive terminal, once a Q is pending on the input the
\* process eventually ends, in whichever phase the key arrived: a Q typed
\* in the iteration where a session times out or a wait reaches next_start
\* is read by a later poll.
TheoremC19 == QuitPending ~> (pc = "exited")

\* Q is pending when the session has just timed out without reading it
WitnessC19 ==
    /\ pc = "schedule"
    /\ ev.step = "run"
    /\ "timeout" \in ev.out
    /\ QuitPending

(* ----------------------------- cancellation --------------------------- *)
\* C20: an E typed while main is waiting (from the moment the previous
\* session's loop was left until wait_until returns) never ends a later
\* session early: the E that run_session reads was typed in the Running
\* phase.
ClaimC20 ==
    [][ (pc = "run" /\ pc' = "schedule" /\ ev'.key = "E")
        => Head(stdin_buf).at = "Running" ]_vars

====
